---- MODULE Spec2Model ----
(***************************************************************************)
(* Model of libraries/apache/kafka.py: the metrics registry, the error     *)
(* handling decorator, the record processor, the consumer poll loop and    *)
(* the producers.                                                           *)
(*                                                                          *)
(* The broker client (confluent_kafka Producer / Consumer) and the user     *)
(* supplied handler and batch manager hooks are the environment: what they  *)
(* return or raise is chosen nondeterministically.                          *)
(***************************************************************************)
EXTENDS Integers, Sequences, FiniteSets, TLC

\* ------------------------------------------------------------------ bounds
MaxBatchSize == 2     \* config.batch_size ranges over 1..MaxBatchSize
MaxFreq == 2          \* config.checkpoint_freq_in_sec ranges over 1..MaxFreq
MaxTime == 3          \* the clock stops advancing at MaxTime
MaxRecords == 4       \* messages (records and error events) poll returns to one consumer
MaxCalls == 2         \* invocations of poll_and_process
MaxLen == 3           \* longest list handed to / returned by a hook in process_records
MaxIncs == 3          \* direct calls of kafka_metrics.inc
MaxProcs == 2         \* process_count ranges over 1..MaxProcs
MaxBatches == 2       \* batches mapped over one worker pool
MaxTasks == 2         \* records of one batch mapped over the worker pool

\* ------------------------------------------------------------- exceptions
\* Subclasses of Exception as the decorator tells them apart.
ExcKinds == {"KafkaException", "Exception"}

\* Exceptions outside Exception, which neither except clause matches: the
\* interrupt the consumer script waits for.
Interrupts == {"KeyboardInterrupt"}

\* Time one loop iteration (the poll and a dispatch) or one idle period takes; a
\* longer wait is a run of poll timeouts.
Deltas == {0, 1}

VARIABLES
    role,                  \* what this process runs: "consumer", "processor" (one
                           \* call of process_records), "pool" (the worker pool of a
                           \* record processor), "producer" (a KafkaProducerClient),
                           \* "dlq" (a KafkaDLQProducer) or "registry" (direct calls
                           \* of kafka_metrics)
    config,                \* KafkaConsumerConfig: batch_size, checkpoint_freq_in_sec
    metrics,               \* kafka_metrics.metrics (defaultdict(int)): touched keys only
    connection,            \* self.consumer: "none" (no client), "open", "closed"
    pc,                    \* consumer: "new" (not constructed), "failed" (the constructor
                           \* raised), "idle" (not inside poll_and_process), "running"
                           \* (in the loop, at the poll), "dispatching" (inside
                           \* process_records), "raised" (an exception left
                           \* poll_and_process)
    batch,                 \* local batch of poll_and_process: the offsets of the
                           \* records polled and not yet dispatched (while a
                           \* dispatch runs, the records being dispatched)
    offset,                \* records the broker has delivered so far (the position)
    runStart,              \* position when the current poll_and_process call began
    now,                   \* time.time()
    last_checkpoint_time,  \* self.last_checkpoint_time
    lastPoll,              \* what the last loop iteration of the current call polled
    dispatches,            \* process_records invocations made by the current call
    lastDispatch,          \* the last process_records invocation of the consumer
                           \* (done: it has ended, by returning or by raising)
    lastCommit,            \* the last consumer.commit() invocation
    handed,                \* offsets of the records handed to process_records so far
    calls,                 \* invocations of poll_and_process
    lastReturn,            \* how the last call of a client function ended (none while
                           \* poll_and_process runs)
    procIn,                \* process_records: the call's arguments and its environment
    procOut,               \* process_records: what the call did
    pool,                  \* self.pool of a KafkaRecordConsumerBaseImpl: its worker
                           \* processes and the batches mapped over it
    sent,                  \* records handed to put_record / send_to_dlq so far
    dlqCalls,              \* calls of send_to_dlq so far
    lastPublish,           \* the last call of a producer: its arguments, the registry
                           \* before it, and what it handed to the broker client
    reg                    \* direct users of kafka_metrics: the lock, the threads inside
                           \* inc, the registry of a pool worker process, the last inc

vars == <<role, config, connection, metrics, pc, batch, offset, runStart, now, last_checkpoint_time,
          lastPoll, dispatches, lastDispatch, lastCommit, handed, calls,
          lastReturn, procIn, procOut, pool, sent, dlqCalls, lastPublish, reg>>

consumerVars == <<config, connection, pc, batch, offset, runStart, now, last_checkpoint_time,
                  lastPoll, dispatches, lastDispatch, lastCommit, handed,
                  calls, lastReturn>>

procVars == <<procIn, procOut, pool>>

producerVars == <<sent, dlqCalls, lastPublish>>

Min(a, b) == IF a < b THEN a ELSE b

\* ----------------------------------------------------------- KafkaMetrics
\* self.metrics[key] = value
inc_Set(m, key, value) ==
    [k \in (DOMAIN m) \cup {key} |-> IF k = key THEN value ELSE m[k]]

\* self.metrics[key] += value on a defaultdict(int)
inc(m, key, value) ==
    [k \in (DOMAIN m) \cup {key} |->
        IF k = key THEN (IF key \in DOMAIN m THEN m[key] ELSE 0) + value ELSE m[k]]

\* self.metrics.get(key, 0)
get(m, key) == IF key \in DOMAIN m THEN m[key] ELSE 0

\* ---------------------------------------------------- kafka_error_handler
\* An outcome of a wrapped function body: it returned `value`, or it raised `exc`.
Returned(value, m) == [raised |-> FALSE, value |-> value, exc |-> "none", metrics |-> m]
Raised(exc, m) == [raised |-> TRUE, value |-> "None", exc |-> exc, metrics |-> m]

\* The two except clauses count into each other's counter.
ErrorCounter_Swapped(exc) ==
    IF exc = "KafkaException" THEN "general_errors" ELSE "kafka_errors"

\* The counter the decorator's except clauses choose.
ErrorCounter(exc) == IF exc = "KafkaException" THEN "kafka_errors" ELSE "general_errors"

\* The decorator absorbs the exception without counting it.
kafka_error_handler_Silent(out) ==
    IF ~out.raised
    THEN [propagated |-> FALSE, exc |-> "none", value |-> out.value, metrics |-> out.metrics]
    ELSE IF out.exc \in ExcKinds
    THEN [propagated |-> FALSE, exc |-> "none", value |-> "None", metrics |-> out.metrics]
    ELSE [propagated |-> TRUE, exc |-> out.exc, value |-> "None", metrics |-> out.metrics]

\* wrapper(*args, **kwargs): what the caller of the decorated function sees.
\* propagated: whether an exception leaves the wrapper; value: the return value.
\* An exception that neither except clause matches leaves the wrapper as exc.
kafka_error_handler(out) ==
    IF ~out.raised
    THEN [propagated |-> FALSE, exc |-> "none", value |-> out.value, metrics |-> out.metrics]
    ELSE IF out.exc \in ExcKinds
    THEN [propagated |-> FALSE, exc |-> "none", value |-> "None",
          metrics |-> inc(out.metrics, ErrorCounter(out.exc), 1)]
    ELSE [propagated |-> TRUE, exc |-> out.exc, value |-> "None", metrics |-> out.metrics]

\* The constructor and close carry the decorator too.
Undecorated_Wrapped(out) == kafka_error_handler(out)

\* A call of a function that is not decorated (__init__, close): what its body
\* raises reaches the caller, and no counter is touched.
Undecorated(out) ==
    [propagated |-> out.raised, exc |-> out.exc, value |-> out.value, metrics |-> out.metrics]

\* How a call of the undecorated function `op` ended.
PlainReturn(op, cause, out) ==
    LET w == Undecorated(out)
    IN  [op |-> op, cause |-> cause, raised |-> out.raised, exc |-> out.exc,
         bodyValue |-> out.value, value |-> w.value, propagated |-> w.propagated,
         body |-> out.metrics, after |-> w.metrics]

\* How a call of the decorated function `op` ended: the outcome `out` of its body
\* (raised, exc, the metrics it left) and what the wrapper made of it.
WrappedReturn(op, cause, out) ==
    LET w == kafka_error_handler(out)
    IN  [op |-> op, cause |-> cause, raised |-> out.raised, exc |-> out.exc,
         bodyValue |-> out.value, value |-> w.value, propagated |-> w.propagated,
         body |-> out.metrics, after |-> w.metrics]

\* --------------------------------- KafkaRecordConsumerBaseImpl.process_records
\* What process_single_record does with one record: it returns a response whose
\* status is true or false, or it raises.
HandlerOutcomes == {"true", "false", "raise"}

NoHook == [raised |-> FALSE, value |-> <<>>, exc |-> "none"]

\* KafkaProcessRecordResponse (message_id, status); data is not modelled.
Response(id, status) == [message_id |-> id, status |-> status]

\* The results come back in the order in which the workers finished (here: the
\* reverse of the input order).
PoolMap_Reversed(records, h, hexc) ==
    IF \E i \in 1..Len(records) : h[records[i]] = "raise"
    THEN [raised |-> TRUE, value |-> <<>>, exc |-> hexc]
    ELSE [raised |-> FALSE, exc |-> "none",
          value |-> [i \in 1..Len(records) |->
                        Response(records[Len(records) + 1 - i],
                                 h[records[Len(records) + 1 - i]] = "true")]]

\* self.pool.map(self.processor.process_single_record, records): the results in
\* the order of the records, or the exception of a record whose handler raised.
PoolMap(records, h, hexc) ==
    IF \E i \in 1..Len(records) : h[records[i]] = "raise"
    THEN [raised |-> TRUE, value |-> <<>>, exc |-> hexc]
    ELSE [raised |-> FALSE, exc |-> "none",
          value |-> [i \in 1..Len(records) |-> Response(records[i], h[records[i]] = "true")]]

\* Every entry is counted, whatever its status.
SuccessCount_All(response) == Len(response)

\* sum([1 for record in response if record.status])
RECURSIVE SuccessCount(_)
SuccessCount(response) ==
    IF response = <<>> THEN 0
    ELSE (IF response[1].status THEN 1 ELSE 0) + SuccessCount(Tail(response))

\* The list post_process_records_batch returns when it returns one entry per
\* status of `statuses`: the i-th entry keeps the message id of the i-th result
\* it was given; an entry beyond them is one the hook made up (message id 0).
PostHookList(resp, statuses) ==
    [i \in 1..Len(statuses) |->
        Response(IF i <= Len(resp) THEN resp[i].message_id ELSE 0, statuses[i])]

\* The map is applied to the batch as it came in, whatever the pre hook returned.
MapInput_Original(records, pre) == records

\* records = self.batch_manager.pre_process_records_batch(records): the name
\* records is rebound, so the map and the post hook get what the pre hook
\* returned (pre.value is the batch itself when there is no batch manager).
MapInput(records, pre) == pre.value

\* The arguments of post_process_records_batch(records, status).
NoPostArgs == [records |-> <<>>, status |-> <<>>]

\* process_records(records): env holds the batch manager (bm: whether one is
\* installed; pre: the records its pre hook returns, or what it raises; post:
\* the statuses of the list its post hook returns, or what it raises) and the
\* handler (h: outcome per record, hexc: what a raising handler raises).
\* trace: the calls made, in order; mapped: the records given to pool.map;
\* results: what pool.map returned; postArgs: what the post hook was called
\* with; response: the list that is counted.
process_records(records, env) ==
    LET pre == IF env.bm THEN env.pre ELSE [NoHook EXCEPT !.value = records]
        before == IF env.bm THEN <<"pre">> ELSE <<>>
    IN  IF pre.raised
        THEN [raised |-> TRUE, exc |-> pre.exc, value |-> "None", step |-> "pre",
              trace |-> before, mapped |-> <<>>, results |-> <<>>,
              postArgs |-> NoPostArgs, response |-> <<>>]
        ELSE
        LET mapped == MapInput(records, pre)
            resp == PoolMap(mapped, env.h, env.hexc)
        IN  IF resp.raised
            THEN [raised |-> TRUE, exc |-> resp.exc, value |-> "None", step |-> "map",
                  trace |-> before \o <<"map">>, mapped |-> mapped, results |-> <<>>,
                  postArgs |-> NoPostArgs, response |-> <<>>]
            ELSE
            LET post == IF env.bm
                        THEN [env.post EXCEPT !.value = PostHookList(resp.value, @)]
                        ELSE [NoHook EXCEPT !.value = resp.value]
                trace == before \o <<"map">> \o (IF env.bm THEN <<"post">> ELSE <<>>)
                postArgs == IF env.bm
                            THEN [records |-> mapped, status |-> resp.value]
                            ELSE NoPostArgs
            IN  IF post.raised
                THEN [raised |-> TRUE, exc |-> post.exc, value |-> "None", step |-> "post",
                      trace |-> trace, mapped |-> mapped, results |-> resp.value,
                      postArgs |-> postArgs, response |-> resp.value]
                ELSE [raised |-> FALSE, exc |-> "none", value |-> SuccessCount(post.value),
                      step |-> "return", trace |-> trace, mapped |-> mapped,
                      results |-> resp.value, postArgs |-> postArgs,
                      response |-> post.value]

\* ------------------------------------------------------ KafkaConsumerClient
\* The handler environments of a dispatch by a consumer whose record processor
\* is a KafkaRecordConsumerBaseImpl without batch manager (the default).
DispatchEnvs(records) ==
    LET ids == {records[i] : i \in 1..Len(records)}
    IN  { [bm |-> FALSE, pre |-> NoHook, post |-> NoHook, h |-> x[1], hexc |-> x[2]] :
            x \in { y \in [ids -> HandlerOutcomes] \X ExcKinds :
                      (\A i \in ids : y[1][i] # "raise") => y[2] = "Exception" } }

\* Messages poll has returned to the consumer so far. The consumer is the only
\* user of the registry under the specifications in which this bounds an action.
polled == offset + get(metrics, "consumer_errors")

\* len(batch) > batch_size: a full batch waits for one more record.
ShouldDispatch_Late(b, cfg) == Len(b) > cfg.batch_size

\* len(batch) >= self.config.batch_size
ShouldDispatch(b, cfg) == Len(b) >= cfg.batch_size

\* The batch is not cleared after the dispatch.
AfterDispatch_Keep(b) == b

\* batch = [] after the dispatch
AfterDispatch(b) == <<>>

\* The checkpoint is due as soon as the interval has elapsed.
CheckpointDue_AtLeast(t, last, cfg) == t - last >= cfg.checkpoint_freq_in_sec

\* time.time() - self.last_checkpoint_time > self.config.checkpoint_freq_in_sec
CheckpointDue(t, last, cfg) == t - last > cfg.checkpoint_freq_in_sec

NoDispatch == [k |-> 0, runStart |-> 0, batch |-> <<>>, done |-> FALSE, raised |-> FALSE]
NoCommit == [pos |-> 0, batch |-> <<>>, handed |-> {}, raised |-> FALSE]
NoReturn == [op |-> "none", cause |-> "none", raised |-> FALSE, exc |-> "none",
             bodyValue |-> "None", value |-> "None", propagated |-> FALSE,
             body |-> <<>>, after |-> <<>>]

\* Before KafkaConsumerClient(config, topics, record_processor) is called; a
\* process that is no consumer never calls it.
InitConsumer ==
    /\ config \in [batch_size : 1..MaxBatchSize, checkpoint_freq_in_sec : 1..MaxFreq]
    /\ pc = IF role = "consumer" THEN "new" ELSE "idle"
    /\ connection = "none"
    /\ batch = <<>>
    /\ offset = 0
    /\ runStart = 0
    /\ now = 0
    /\ last_checkpoint_time = 0
    /\ lastPoll = "start"
    /\ dispatches = 0
    /\ lastDispatch = NoDispatch
    /\ lastCommit = NoCommit
    /\ handed = {}
    /\ calls = 0
    /\ lastReturn = NoReturn

\* The body of poll_and_process raised exc while the undispatched records were
\* `pending`: the decorator absorbs it and the call returns None. While the
\* consumer is idle, batch is what the local held when the call ended.
EndCall(cause, exc, m, pending) ==
    LET w == kafka_error_handler(Raised(exc, m))
    IN  /\ pc' = IF w.propagated THEN "raised" ELSE "idle"
        /\ metrics' = w.metrics
        /\ batch' = pending
        /\ lastReturn' = WrappedReturn("poll_and_process", cause, Raised(exc, m))

\* KafkaConsumerClient.__init__: Consumer(...) and subscribe(topics) return, and
\* last_checkpoint_time = time.time(); or one of them raises (cause) and no
\* client object comes into being.
Construct ==
    /\ role = "consumer"
    /\ pc = "new"
    /\ \/ /\ pc' = "idle"
          /\ connection' = "open"
          /\ last_checkpoint_time' = now
          /\ UNCHANGED <<metrics, lastReturn>>
       \/ \E cause \in {"connect", "subscribe"}, exc \in ExcKinds :
            LET out == Raised(exc, metrics)
                w == Undecorated(out)
            IN  /\ pc' = IF w.propagated THEN "failed" ELSE "idle"
                /\ connection' = "none"
                /\ metrics' = w.metrics
                /\ lastReturn' = PlainReturn("__init__", cause, out)
                /\ UNCHANGED last_checkpoint_time
    /\ UNCHANGED <<role, config, batch, offset, runStart, now, lastPoll, dispatches,
                   lastDispatch, lastCommit, handed, calls, procVars, producerVars, reg>>

\* Nothing is done to the broker connection.
close_Noop(conn) == conn

\* self.consumer.close()
close(conn) == "closed"

\* The caller invokes close(): after poll_and_process returned, or in the handler
\* of the interrupt that left it (the consumer script).
Close ==
    /\ role = "consumer"
    /\ pc \in {"idle", "raised"}
    /\ connection = "open"
    /\ connection' = close(connection)
    /\ lastReturn' = PlainReturn("close", "body", Returned("None", metrics))
    /\ UNCHANGED <<role, config, metrics, pc, batch, offset, runStart, now,
                   last_checkpoint_time, lastPoll, dispatches, lastDispatch, lastCommit,
                   handed, calls, procVars, producerVars, reg>>

\* The caller invokes poll_and_process: batch = [] and the loop is entered.
CallPollAndProcess ==
    /\ role = "consumer"
    /\ pc = "idle"
    /\ calls < MaxCalls
    /\ \E d \in Deltas : now' = Min(now + d, MaxTime)
    /\ pc' = "running"
    /\ batch' = <<>>
    /\ runStart' = offset
    /\ dispatches' = 0
    /\ lastPoll' = "start"
    /\ calls' = calls + 1
    /\ lastReturn' = NoReturn
    /\ UNCHANGED <<role, config, connection, metrics, offset, last_checkpoint_time, lastDispatch,
                   lastCommit, handed, procVars, producerVars, reg>>

\* An interrupt is delivered while the loop runs: KeyboardInterrupt is raised in
\* the body and unwinds the frame (and its local batch).
Interrupt ==
    /\ role = "consumer"
    /\ pc \in {"running", "dispatching"}
    /\ \E exc \in Interrupts :
        EndCall("interrupt", exc, metrics, IF pc = "dispatching" THEN <<>> ELSE batch)
    /\ UNCHANGED <<role, config, connection, offset, runStart, now, last_checkpoint_time, lastPoll,
                   dispatches, lastDispatch, lastCommit, handed, calls, procVars,
                   producerVars, reg>>

\* The loop polls while a dispatch is still running.
AtPoll_Async(p) == p \in {"running", "dispatching"}

\* while True: msg = self.consumer.poll(...): the loop's single thread is at the
\* poll only when it is not inside process_records (p is the call's position).
AtPoll(p) == p = "running"

\* A poll that timed out counts as a batch processed.
OnPollNone_Counted(b, m) == [batch |-> b, metrics |-> inc(m, "batches_processed", 1)]

\* if msg is None: continue. b is the local batch.
OnPollNone(b, m) == [batch |-> b, metrics |-> m]

\* One loop iteration: poll returns None (timeout) -> continue
PollNone ==
    /\ role = "consumer"
    /\ AtPoll(pc)
    /\ connection = "open"
    /\ \E d \in Deltas : now' = Min(now + d, MaxTime)
    /\ LET r == OnPollNone(batch, metrics)
       IN  /\ metrics' = r.metrics
           /\ batch' = r.batch
    /\ lastPoll' = "none"
    /\ UNCHANGED <<role, config, connection, pc, offset, runStart, last_checkpoint_time,
                   dispatches, lastDispatch, lastCommit, handed, calls,
                   lastReturn, procVars, producerVars, reg>>

\* The error event is counted and then treated as a record (no continue).
OnPollError_Consumed(b, m) ==
    [batch |-> Append(b, 0),
     metrics |-> inc(inc(m, "consumer_errors", 1), "messages_consumed", 1)]

\* if msg.error(): log, count, continue. b is the local batch.
OnPollError(b, m) == [batch |-> b, metrics |-> inc(m, "consumer_errors", 1)]

\* One loop iteration: poll returns a message with msg.error() set -> count, continue
PollError ==
    /\ role = "consumer"
    /\ AtPoll(pc)
    /\ connection = "open"
    /\ polled < MaxRecords
    /\ \E d \in Deltas : now' = Min(now + d, MaxTime)
    /\ LET r == OnPollError(batch, metrics)
       IN  /\ metrics' = r.metrics
           /\ batch' = r.batch
    /\ lastPoll' = "error"
    /\ UNCHANGED <<role, config, connection, pc, offset, runStart, last_checkpoint_time,
                   dispatches, lastDispatch, lastCommit, handed, calls,
                   lastReturn, procVars, producerVars, reg>>

\* One loop iteration: self.consumer.poll raises; the decorator ends the call.
\* On a closed consumer poll can only raise (RuntimeError).
PollRaises ==
    /\ role = "consumer"
    /\ AtPoll(pc)
    /\ \E d \in Deltas : now' = Min(now + d, MaxTime)
    /\ \E exc \in (IF connection = "open" THEN ExcKinds ELSE {"Exception"}) :
            EndCall("poll", exc, metrics, batch)
    /\ lastPoll' = "raised"
    /\ UNCHANGED <<role, config, connection, offset, runStart, last_checkpoint_time, dispatches,
                   lastDispatch, lastCommit, handed, calls, procVars, producerVars, reg>>

\* The checkpoint at the end of an iteration that got a record; b and m are the
\* batch and the metrics after the append and the dispatch, t the time read,
\* hd the records handed to the record processor so far, pos the position.
\* self.consumer.commit() returns, or raises a KafkaException.
Checkpoint(b, m, t, hd, pos) ==
    IF CheckpointDue(t, last_checkpoint_time, config)
    THEN \/ /\ lastCommit' = [pos |-> pos, batch |-> b, handed |-> hd, raised |-> FALSE]
            /\ last_checkpoint_time' = t
            /\ pc' = "running"
            /\ batch' = b
            /\ metrics' = m
            /\ UNCHANGED lastReturn
         \/ /\ lastCommit' = [pos |-> pos, batch |-> b, handed |-> hd, raised |-> TRUE]
            /\ EndCall("commit", "KafkaException", m, b)
            /\ UNCHANGED last_checkpoint_time
    ELSE /\ pc' = "running"
         /\ batch' = b
         /\ metrics' = m
         /\ UNCHANGED <<lastCommit, last_checkpoint_time, lastReturn>>

\* The record is appended and not counted.
OnRecord_Uncounted(b, m, msg) == [batch |-> Append(b, msg), metrics |-> m]

\* batch.append(msg); kafka_metrics.inc('messages_consumed')
OnRecord(b, m, msg) ==
    [batch |-> Append(b, msg), metrics |-> inc(m, "messages_consumed", 1)]

\* One loop iteration up to the dispatch: poll returns a record; append, count,
\* and either enter self.record_consumer.process_records(batch) when the batch
\* is full (the loop's thread is inside that call until it ends), or go on to
\* the checkpoint.
PollMsg ==
    /\ role = "consumer"
    /\ AtPoll(pc)
    /\ connection = "open"
    /\ polled < MaxRecords
    /\ offset' = offset + 1
    /\ lastPoll' = "msg"
    /\ LET r == OnRecord(batch, metrics, offset + 1)
           b1 == r.batch
           m1 == r.metrics
       IN  IF ShouldDispatch(b1, config)
           THEN /\ pc' = "dispatching"
                /\ batch' = b1
                /\ metrics' = m1
                /\ dispatches' = dispatches + 1
                /\ handed' = handed \cup {b1[i] : i \in 1..Len(b1)}
                /\ lastDispatch' = [k |-> dispatches + 1, runStart |-> runStart,
                                    batch |-> b1, done |-> FALSE, raised |-> FALSE]
                /\ UNCHANGED <<now, lastCommit, last_checkpoint_time, lastReturn>>
           ELSE /\ \E d \in Deltas :
                    LET t == Min(now + d, MaxTime)
                    IN  /\ now' = t
                        /\ Checkpoint(b1, m1, t, handed, offset + 1)
                /\ UNCHANGED <<dispatches, handed, lastDispatch>>
    /\ UNCHANGED <<role, config, connection, runStart, calls, procVars, producerVars, reg>>

\* The rest of an iteration that dispatched: process_records ends, by returning
\* its count or by raising; after a return the batch is counted and cleared and
\* the checkpoint follows.
DispatchEnd ==
    /\ role = "consumer"
    /\ pc = "dispatching"
    /\ \E d \in Deltas, env \in DispatchEnvs(batch) :
        LET r == process_records(batch, env)
            t == Min(now + d, MaxTime)
        IN  /\ now' = t
            /\ lastDispatch' = [lastDispatch EXCEPT !.done = TRUE, !.raised = r.raised]
            /\ IF r.raised
               THEN /\ EndCall("dispatch", r.exc, metrics, <<>>)
                    /\ UNCHANGED <<lastCommit, last_checkpoint_time>>
               ELSE Checkpoint(AfterDispatch(batch),
                               inc(metrics, "batches_processed", 1), t, handed, offset)
    /\ UNCHANGED <<role, config, connection, offset, runStart, lastPoll, dispatches,
                   handed, calls, procVars, producerVars, reg>>

NextConsumer ==
    \/ Construct
    \/ Close
    \/ CallPollAndProcess
    \/ PollNone
    \/ PollError
    \/ PollRaises
    \/ Interrupt
    \/ PollMsg
    \/ DispatchEnd

NoProc == [raised |-> FALSE, exc |-> "none", value |-> "None", step |-> "none",
           trace |-> <<>>, mapped |-> <<>>, results |-> <<>>,
           postArgs |-> NoPostArgs, response |-> <<>>]
NoProcIn == [records |-> <<>>,
             env |-> [bm |-> FALSE, pre |-> NoHook, post |-> NoHook,
                      h |-> <<>>, hexc |-> "Exception"]]

\* ------------------------------------------- a call of process_records
\* All sequences over S of length at most n.
SeqsUpTo(S, n) == UNION { [1..k -> S] : k \in 0..n }

\* What a hook does on one call: it returns one of `values`, or it raises.
HookResults(values) ==
    { [raised |-> FALSE, value |-> v, exc |-> "none"] : v \in values }
        \cup { [raised |-> TRUE, value |-> <<>>, exc |-> e] : e \in ExcKinds }

\* The handlers that differ on the records of `mapped`.
Handlers(mapped) ==
    LET ids == {mapped[i] : i \in 1..Len(mapped)}
    IN  { x \in [1..MaxLen -> HandlerOutcomes] \X ExcKinds :
            /\ \A r \in (1..MaxLen) \ ids : x[1][r] = "true"
            /\ (\A r \in ids : x[1][r] # "raise") => x[2] = "Exception" }

\* process_records is called once, on the records 1..K, with or without a batch
\* manager; the hooks and the handler are the environment.
ProcessRecordsCall ==
    /\ role = "processor"
    /\ procOut.step = "none"
    /\ \E K \in 0..MaxLen, bm \in BOOLEAN :
        LET records == [i \in 1..K |-> i]
        IN  \E pre \in (IF bm THEN HookResults(SeqsUpTo(1..MaxLen, MaxLen)) ELSE {NoHook}) :
            LET mapped == IF bm THEN pre.value ELSE records
            IN  \E x \in Handlers(mapped) :
                \E post \in (IF bm /\ ~pre.raised /\ (\A i \in 1..Len(mapped) : x[1][mapped[i]] # "raise")
                             THEN HookResults(SeqsUpTo(BOOLEAN, MaxLen))
                             ELSE {NoHook}) :
                    LET env == [bm |-> bm, pre |-> pre, post |-> post,
                                h |-> x[1], hexc |-> x[2]]
                    IN  /\ procIn' = [records |-> records, env |-> env]
                        /\ procOut' = process_records(records, env)
    /\ UNCHANGED <<role, metrics, consumerVars, pool, producerVars, reg>>

NextProcessor == ProcessRecordsCall

\* ------------------------------------------------------- the worker pool
\* pool = None (class attribute): no pool yet. created: calls of
\* multiprocessing.Pool made; w: the worker processes; mapping: a pool.map is
\* running; pending: records of that map no worker has taken yet.
NoPool == [created |-> 0, size |-> 0, w |-> <<>>, batches |-> 0,
           mapping |-> FALSE, pending |-> 0]

\* A worker process that has been started: it has run nothing yet.
NewWorker == [pc |-> "starting", setups |-> 0, tasks |-> 0]

\* The worker runs the initializer, self.processor.setup, and enters its task
\* loop.
InitWorker(wk) == [wk EXCEPT !.pc = "ready", !.setups = @ + 1]

\* setup is run again for every record.
RunTask_WithSetup(wk) == [wk EXCEPT !.tasks = @ + 1, !.setups = @ + 1]

\* The worker takes one record of a map and runs process_single_record on it.
RunTask(wk) == [wk EXCEPT !.tasks = @ + 1]

\* KafkaRecordConsumerBaseImpl.__init__: the pool is created with process_count
\* worker processes; Pool() returns once they are started.
CreatePool ==
    /\ role = "pool"
    /\ pool.created = 0
    /\ \E process_count \in 1..MaxProcs :
        pool' = [NoPool EXCEPT !.created = 1, !.size = process_count,
                               !.w = [i \in 1..process_count |-> NewWorker]]
    /\ UNCHANGED <<role, metrics, consumerVars, procIn, procOut, producerVars, reg>>

\* A started worker process runs its initializer.
WorkerSetup ==
    /\ role = "pool"
    /\ \E i \in 1..Len(pool.w) :
        /\ pool.w[i].pc = "starting"
        /\ pool' = [pool EXCEPT !.w[i] = InitWorker(@)]
    /\ UNCHANGED <<role, metrics, consumerVars, procIn, procOut, producerVars, reg>>

\* process_records calls self.pool.map on a batch of K records.
MapStart ==
    /\ role = "pool"
    /\ pool.created = 1
    /\ ~pool.mapping
    /\ pool.batches < MaxBatches
    /\ \E K \in 0..MaxTasks :
        pool' = [pool EXCEPT !.mapping = TRUE, !.pending = K, !.batches = @ + 1]
    /\ UNCHANGED <<role, metrics, consumerVars, procIn, procOut, producerVars, reg>>

\* A worker that is in its task loop takes the next record of the map.
WorkerTask ==
    /\ role = "pool"
    /\ pool.mapping
    /\ pool.pending > 0
    /\ \E i \in 1..Len(pool.w) :
        /\ pool.w[i].pc = "ready"
        /\ pool' = [pool EXCEPT !.w[i] = RunTask(@), !.pending = @ - 1]
    /\ UNCHANGED <<role, metrics, consumerVars, procIn, procOut, producerVars, reg>>

\* Every record of the map has been processed: pool.map returns.
MapEnd ==
    /\ role = "pool"
    /\ pool.mapping
    /\ pool.pending = 0
    /\ pool' = [pool EXCEPT !.mapping = FALSE]
    /\ UNCHANGED <<role, metrics, consumerVars, procIn, procOut, producerVars, reg>>

NextPool ==
    \/ CreatePool
    \/ WorkerSetup
    \/ MapStart
    \/ WorkerTask
    \/ MapEnd

\* ------------------------------------------------------ KafkaProducerClient
\* What the broker client does on one put_record: produce returns or raises
\* (produce: "ok", the exception, or the interrupt that arrived); the record is
\* then delivered or not (report); the delivery callback is _delivery_report
\* (cb = "default") or the caller's on_delivery, which may raise out of flush
\* (cbexc).
PutEnvs ==
    { e \in [produce : {"ok"} \cup ExcKinds \cup Interrupts, cb : {"default", "custom"},
             report : {"delivered", "failed"}, cbexc : {"none"} \cup ExcKinds] :
        /\ e.produce # "ok" => (e.cb = "default" /\ e.report = "delivered" /\ e.cbexc = "none")
        /\ e.cb = "default" => e.cbexc = "none"
        /\ e.cb = "custom" => e.report = "delivered" }

NoPut == [produce |-> "none", cb |-> "default", report |-> "delivered", cbexc |-> "none"]

\* Both counters are incremented, whatever the outcome.
delivery_report_Both(m, report) ==
    inc(inc(m, "delivery_errors", 1), "messages_delivered", 1)

\* _delivery_report(err, msg)
delivery_report(m, report) ==
    IF report = "failed" THEN inc(m, "delivery_errors", 1)
    ELSE inc(m, "messages_delivered", 1)

\* The body of put_record: produce, count, flush (which runs the callback).
put_record_body(m, e) ==
    IF e.produce # "ok" THEN Raised(e.produce, m)
    ELSE LET m1 == inc(m, "messages_produced", 1)
         IN  IF e.cb = "default" THEN Returned("None", delivery_report(m1, e.report))
             ELSE IF e.cbexc # "none" THEN Raised(e.cbexc, m1)
             ELSE Returned("None", m1)

\* messages_produced is incremented only after the flush has run the callback.
put_record_states_CountLast(m, e) ==
    IF e.produce # "ok" THEN <<m>>
    ELSE LET m1 == IF e.cb = "default" THEN delivery_report(m, e.report) ELSE m
         IN  <<m, m1, inc(m1, "messages_produced", 1)>>

\* The registry after each statement of the body of put_record: after produce
\* (which enqueues and runs no callback), after inc('messages_produced'), and
\* after flush, which runs the delivery callback of the record. A produce that
\* raises ends the body after the first.
put_record_states(m, e) ==
    IF e.produce # "ok" THEN <<m>>
    ELSE LET m1 == inc(m, "messages_produced", 1)
         IN  <<m, m1, IF e.cb = "default" THEN delivery_report(m1, e.report) ELSE m1>>

\* The body of put_record never calls flush.
put_record_calls_NoFlush(e) == <<"produce">>

\* The calls the body of put_record makes on self.producer, in order: flush is
\* reached only when produce has returned.
put_record_calls(e) ==
    IF e.produce # "ok" THEN <<"produce">> ELSE <<"produce", "flush">>

\* put_record without the decorator: what its body raises reaches put_records.
put_record_Unwrapped(m, e) == Undecorated(put_record_body(m, e))

\* put_record as its callers see it: the decorated function.
put_record(m, e) == kafka_error_handler(put_record_body(m, e))

\* The body of put_records on the records whose environments are envs (the one
\* on_delivery of the call is handed to every put_record); bad is
\* the index of a record that has no get method (0: none), which the key lookup
\* trips over. Each put_record is the decorated one, so only what it lets
\* through ends the loop; the final flush has nothing left to deliver.
RECURSIVE put_records_body(_, _, _, _)
put_records_body(m, envs, bad, i) ==
    IF i > Len(envs) THEN Returned("None", m)
    ELSE IF i = bad THEN Raised("Exception", m)
    ELSE LET r == put_record(m, envs[i])
         IN  IF r.propagated THEN Raised(r.exc, r.metrics)
             ELSE put_records_body(r.metrics, envs, bad, i + 1)

\* ------------------------------------------------- the dead-letter envelope
\* Keys and values of a message: None, or bytes (empty, UTF-8 text, not UTF-8).
Payloads == {"None", "b''", "b'k'", "b'<ff>'"}

\* bytes.decode(): the text of UTF-8 bytes.
decode(b) == IF b = "b''" THEN "" ELSE "k"

\* str.encode(): the inverse of decode on text.
encode(t) == IF t = "" THEN "b''" ELSE "b'k'"

\* decode raises UnicodeDecodeError on these bytes.
Undecodable(b) == b = "b'<ff>'"

\* `x.decode() if x else None`: None and empty bytes are falsy.
decode_if_any(x) == IF x \in {"None", "b''"} THEN "None" ELSE decode(x)

DlqTopic == "dlq"          \* self.dlq_topic

BaseMessage == [topic |-> "logs", partition |-> 0, offset |-> 7, key |-> "b'k'", value |-> "b'k'"]

\* The failed messages: the base message with at most one field changed.
DlqMessages ==
    { msg \in [topic : {"logs", DlqTopic}, partition : {0, 1}, offset : {7, 8},
               key : Payloads, value : Payloads] :
        Cardinality({f \in DOMAIN msg : msg[f] # BaseMessage[f]}) <= 1 }

Reasons == {"", "timeout"}

\* The dict `data` of send_to_dlq, which is published as str(data).encode("utf-8").
Envelope(msg, reason, t) ==
    [topic |-> msg.topic, partition |-> msg.partition, offset |-> msg.offset,
     key |-> decode_if_any(msg.key), value |-> decode_if_any(msg.value),
     reason |-> reason, timestamp |-> t]

NoEnvelope == [topic |-> "none", partition |-> 0, offset |-> 0, key |-> "None",
               value |-> "None", reason |-> "", timestamp |-> 0]

\* put, calls, states: the environment of a put_record, the calls it made on
\* the broker client and the registry after each statement; puts, bad: the environments of the records of a put_records
\* and the index of the record without get (0: none).
NoPublish == [op |-> "none", before |-> <<>>, put |-> NoPut, calls |-> <<>>,
              states |-> <<>>, puts |-> <<>>, bad |-> 0, msg |-> BaseMessage,
              reason |-> "", published |-> FALSE, dest |-> "none", envelope |-> NoEnvelope]

PutRecord ==
    /\ role = "producer"
    /\ sent < MaxRecords
    /\ \E e \in PutEnvs :
        LET out == put_record_body(metrics, e)
        IN  /\ lastReturn' = WrappedReturn("put_record", "body", out)
            /\ metrics' = kafka_error_handler(out).metrics
            /\ lastPublish' = [NoPublish EXCEPT !.op = "put_record", !.before = metrics,
                                                !.put = e, !.calls = put_record_calls(e),
                                                !.states = put_record_states(metrics, e)]
    /\ sent' = sent + 1
    /\ UNCHANGED <<role, config, connection, pc, batch, offset, runStart, now, last_checkpoint_time,
                   lastPoll, dispatches, lastDispatch, lastCommit, handed, calls,
                   procVars, dlqCalls, reg>>

PutRecords ==
    /\ role = "producer"
    /\ \E n \in 0..MaxLen :
        /\ sent + n <= MaxRecords
        /\ \E cb \in {"default", "custom"} :
           \E envs \in [1..n -> {e \in PutEnvs : e.produce = "ok" => e.cb = cb}], bad \in 0..n :
            LET out == put_records_body(metrics, envs, bad, 1)
            IN  /\ lastReturn' = WrappedReturn("put_records", "body", out)
                /\ metrics' = kafka_error_handler(out).metrics
                /\ lastPublish' = [NoPublish EXCEPT !.op = "put_records",
                                                    !.before = metrics,
                                                    !.puts = envs, !.bad = bad]
        /\ sent' = sent + n
    /\ UNCHANGED <<role, config, connection, pc, batch, offset, runStart, now, last_checkpoint_time,
                   lastPoll, dispatches, lastDispatch, lastCommit, handed, calls,
                   procVars, dlqCalls, reg>>

\* --------------------------------------------------------- KafkaDLQProducer
\* One send_to_dlq: the failed message, the reason, and whether produce returns
\* or raises. No delivery callback is registered, so flush raises nothing.
DlqEnvs == [msg : DlqMessages, reason : Reasons, produce : {"ok"} \cup ExcKinds \cup Interrupts]

\* Building the envelope raises (UnicodeDecodeError).
EnvelopeRaises(msg) == Undecodable(msg.key) \/ Undecodable(msg.value)

\* The body of send_to_dlq: envelope, produce, flush, count.
send_to_dlq_body(m, e) ==
    IF EnvelopeRaises(e.msg) THEN Raised("Exception", m)
    ELSE IF e.produce # "ok" THEN Raised(e.produce, m)
    ELSE Returned("None", inc(m, "dlq_messages", 1))

SendToDlq ==
    /\ role = "dlq"
    /\ sent < MaxRecords
    /\ \E e \in DlqEnvs :
        LET out == send_to_dlq_body(metrics, e)
            handed_over == ~EnvelopeRaises(e.msg) /\ e.produce = "ok"
        IN  /\ lastReturn' = WrappedReturn("send_to_dlq", "body", out)
            /\ metrics' = kafka_error_handler(out).metrics
            /\ lastPublish' =
                 [NoPublish EXCEPT !.op = "send_to_dlq", !.before = metrics,
                    !.msg = e.msg, !.reason = e.reason, !.published = handed_over,
                    !.dest = IF handed_over THEN DlqTopic ELSE "none",
                    !.envelope = IF handed_over THEN Envelope(e.msg, e.reason, now)
                                 ELSE NoEnvelope]
    /\ sent' = sent + 1
    /\ dlqCalls' = dlqCalls + 1
    /\ UNCHANGED <<role, config, connection, pc, batch, offset, runStart, now, last_checkpoint_time,
                   lastPoll, dispatches, lastDispatch, lastCommit, handed, calls,
                   procVars, reg>>

NextProducer ==
    \/ PutRecord
    \/ PutRecords

NextDlq == SendToDlq

\* ------------------------------------------- direct use of kafka_metrics
\* Threads of the process that call kafka_metrics.inc / snapshot; the pool
\* worker is a process of its own (multiprocessing.Pool) with its own module
\* state, so with its own kafka_metrics.
Threads == {1, 2}
RegKeys == {"a", "b"}
IncValues == {-1, 1}       \* the value argument of inc: any integer

NoInc == [key |-> "none", value |-> 0, before |-> <<>>, after |-> <<>>]
IdleThread == [pc |-> "idle", key |-> "none", value |-> 0]

\* lock: the thread holding self.lock (0: free); th: where each thread is;
\* asked: per key, the sum of the increments of the inc calls that returned, in
\* whatever process; touched: the keys inc was called with in this process;
\* worker: kafka_metrics.metrics of the pool worker process; last: the last inc
\* of this process; snap: what the last snapshot() returned; n: inc calls.
NoReg == [lock |-> 0, th |-> [t \in Threads |-> IdleThread],
          asked |-> [k \in RegKeys |-> 0], touched |-> {}, worker |-> <<>>,
          last |-> NoInc, snap |-> <<>>, n |-> 0]

\* with self.lock: entered by thread t calling inc(key, value)
IncAcquire(t) ==
    /\ role = "registry"
    /\ reg.th[t].pc = "idle"
    /\ reg.lock = 0
    /\ reg.n < MaxIncs
    /\ \E key \in RegKeys, value \in IncValues :
        reg' = [reg EXCEPT !.lock = t, !.n = @ + 1,
                           !.th[t] = [pc |-> "locked", key |-> key, value |-> value]]
    /\ UNCHANGED <<role, metrics, consumerVars, procVars, producerVars>>

\* self.metrics[key] += value, and the lock is released on leaving the block
IncUpdate(t) ==
    /\ role = "registry"
    /\ reg.th[t].pc = "locked"
    /\ LET key == reg.th[t].key
           value == reg.th[t].value
       IN  /\ metrics' = inc(metrics, key, value)
           /\ reg' = [reg EXCEPT !.lock = 0, !.th[t] = IdleThread,
                                 !.asked[key] = @ + value,
                                 !.touched = @ \cup {key},
                                 !.last = [key |-> key, value |-> value,
                                           before |-> metrics,
                                           after |-> inc(metrics, key, value)]]
    /\ UNCHANGED <<role, consumerVars, procVars, producerVars>>

\* snapshot(): dict(self.metrics) under the lock
Snapshot(t) ==
    /\ role = "registry"
    /\ reg.th[t].pc = "idle"
    /\ reg.lock = 0
    /\ reg' = [reg EXCEPT !.snap = metrics]
    /\ UNCHANGED <<role, metrics, consumerVars, procVars, producerVars>>

\* The handler running in the pool worker calls kafka_metrics.inc(key): the
\* worker process's registry is incremented.
WorkerInc ==
    /\ role = "registry"
    /\ reg.n < MaxIncs
    /\ \E key \in RegKeys :
        reg' = [reg EXCEPT !.worker = inc(@, key, 1), !.asked[key] = @ + 1, !.n = @ + 1]
    /\ UNCHANGED <<role, metrics, consumerVars, procVars, producerVars>>

NextRegistry ==
    \/ \E t \in Threads : IncAcquire(t)
    \/ \E t \in Threads : IncUpdate(t)
    \/ \E t \in Threads : Snapshot(t)
    \/ WorkerInc

\* The process is a consumer (of any configuration), or it calls process_records,
\* or it publishes records, or it publishes dead letters, or it uses the
\* registry directly; each process has its own registry.
Init ==
    /\ role \in {"consumer", "processor", "pool", "producer", "dlq", "registry"}
    /\ InitConsumer
    /\ role # "consumer" => config = [batch_size |-> 1, checkpoint_freq_in_sec |-> 1]
    /\ metrics = <<>>
    /\ procIn = NoProcIn
    /\ procOut = NoProc
    /\ pool = NoPool
    /\ sent = 0
    /\ dlqCalls = 0
    /\ lastPublish = NoPublish
    /\ reg = NoReg

Next ==
    \/ NextConsumer
    \/ NextProcessor
    \/ NextPool
    \/ NextProducer
    \/ NextDlq
    \/ NextRegistry

Spec == Init /\ [][Next]_vars

\* ------------------------------------------------- claims on the poll loop
\* Records the current (or last) call of poll_and_process polled successfully.
RunPolled == offset - runStart

\* C1: in every iteration of the poll loop, also one in which poll returned no
\* message or an error event, a commit is issued when the time since the last
\* commit exceeds the checkpoint interval; so no iteration ends with the loop
\* running and the checkpoint still due.
C1_CommitWheneverDue ==
    (pc = "running" /\ lastPoll \in {"none", "error", "msg"})
        => ~CheckpointDue(now, last_checkpoint_time, config)

\* C2: after M successfully polled records of one run of poll_and_process the
\* record processor has been invoked exactly floor(M / batch_size) times, and the
\* trailing M mod batch_size records are pending, not dispatched.
C2_DispatchCount ==
    /\ dispatches = RunPolled \div config.batch_size
    /\ pc = "running" => Len(batch) = RunPolled % config.batch_size

C2_Witness ==
    /\ pc = "running"
    /\ config.batch_size = 2
    /\ RunPolled = 3
    /\ dispatches = 1
    /\ Len(batch) = 1

\* C3: the k-th dispatch of a run holds exactly the records numbered
\* (k-1)*N+1 .. k*N of the run's polled sequence, in poll order, and the records
\* polled since the last dispatch are buffered in poll order.
C3_DispatchContents ==
    /\ lastDispatch.k >= 1 =>
         lastDispatch.batch =
            [i \in 1..config.batch_size |->
                lastDispatch.runStart + (lastDispatch.k - 1) * config.batch_size + i]
    /\ pc = "running" =>
         batch = [i \in 1..(RunPolled % config.batch_size) |->
                    runStart + dispatches * config.batch_size + i]

\* Batch size 2, records 1..4 polled by one run: after the third record the
\* first dispatch was <<1, 2>> and 3 is buffered; the fourth gives <<3, 4>>.
C3_Witness ==
    /\ config.batch_size = 2
    /\ lastDispatch = [k |-> 2, runStart |-> 0, batch |-> <<3, 4>>, done |-> TRUE,
                       raised |-> FALSE]
    /\ batch = <<>>

\* C4: the records pending when a call of poll_and_process ends are still in
\* the batch when poll_and_process is called again.
C4_PendingSurvivesCall ==
    [][(pc = "idle" /\ pc' = "running") => batch' = batch]_vars

\* C6: a dispatch in which the handler raised does not end the poll loop: after
\* it poll_and_process is still running.
C6_LoopSurvivesDispatchFailure ==
    [][(pc = "dispatching" /\ lastDispatch'.done /\ lastDispatch'.raised) =>
          pc' = "running"]_vars

\* C10: every commit is issued with fewer than batch_size records pending; the
\* pending records lie at or below the committed position and none of them had
\* been handed to the record processor when the commit was issued.
C10_CommitCoversPending ==
    lastCommit # NoCommit =>
        /\ Len(lastCommit.batch) < config.batch_size
        /\ \A i \in 1..Len(lastCommit.batch) :
              /\ lastCommit.batch[i] <= lastCommit.pos
              /\ lastCommit.batch[i] \notin lastCommit.handed

\* A commit that succeeded while a partial batch was pending.
C10_Witness ==
    /\ lastCommit # NoCommit
    /\ ~lastCommit.raised
    /\ Len(lastCommit.batch) >= 1
    /\ Len(lastCommit.batch) <= config.batch_size - 1

\* ------------------------------------------------ claims on process_records
\* The entries of a response list whose status is true.
Successes(response) == {i \in 1..Len(response) : response[i].status}

\* The records given to the handler for which it raised / returned a true status.
RaisedFor == {i \in 1..Len(procOut.mapped) : procIn.env.h[procOut.mapped[i]] = "raise"}
SucceededFor == {i \in 1..Len(procOut.mapped) : procIn.env.h[procOut.mapped[i]] = "true"}

\* C5: when the handler raises for a record of the batch, process_records (no
\* batch manager) still returns, and returns the number of records of the batch
\* that succeeded.
C5_FailureIsolated ==
    (procOut.step # "none" /\ ~procIn.env.bm /\ RaisedFor # {}) =>
        /\ ~procOut.raised
        /\ procOut.value = Cardinality(SucceededFor)

\* C9 as stated: the count process_records returns on K records lies in 0..K and
\* is the number of result entries whose status is true, with or without a
\* batch manager.
C9_CountWithinK ==
    procOut.step = "return" =>
        /\ procOut.value >= 0
        /\ procOut.value <= Len(procIn.records)
        /\ procOut.value = Cardinality(Successes(procOut.response))

\* C9 as amended: process_records either propagates the exception of a hook or
\* of the handler and returns nothing, or returns the number of entries with a
\* true status of the list it counts (the map's results, or what the post hook
\* returned), which lies between 0 and the length of that list; without a batch
\* manager that list has one entry per record, so the count is at most K.
C9_CountOfCountedList ==
    /\ procOut.step = "return" =>
        /\ ~procOut.raised
        /\ procOut.value = Cardinality(Successes(procOut.response))
        /\ procOut.value >= 0
        /\ procOut.value <= Len(procOut.response)
        /\ ~procIn.env.bm =>
             /\ Len(procOut.response) = Len(procIn.records)
             /\ procOut.value <= Len(procIn.records)
    /\ procOut.step \in {"pre", "map", "post"} => procOut.raised

\* Three records without batch manager, two of them succeed and one fails
\* without raising: the count is 2.
C9_Witness ==
    /\ procOut.step = "return"
    /\ ~procIn.env.bm
    /\ Len(procIn.records) = 3
    /\ procOut.value = 2

\* ------------------------------------- claims on the decorator and the DLQ
\* C7: every call of send_to_dlq increments dlq_messages by exactly 1, whether
\* produce and flush succeed or fail: the counter equals the number of calls.
C7_DlqCountedPerCall == get(metrics, "dlq_messages") = dlqCalls

\* The decorated operations.
WrappedOps == {"put_record", "put_records", "poll_and_process", "send_to_dlq"}

\* The counters the decorator may touch, and the one the claim names for exc.
ErrorCounters == {"kafka_errors", "general_errors"}
NamedCounter(exc) == IF exc = "KafkaException" THEN "kafka_errors" ELSE "general_errors"

\* C8: a call of a decorated operation that completes returns the operation's
\* result and counts nothing; one that raises returns no value, propagates
\* nothing, and adds exactly 1 to exactly one counter: kafka_errors for a
\* KafkaException, general_errors otherwise.
C8_WrapperContract ==
    lastReturn.op \in WrappedOps =>
        /\ ~lastReturn.propagated
        /\ ~lastReturn.raised =>
             /\ lastReturn.value = lastReturn.bodyValue
             /\ lastReturn.after = lastReturn.body
        /\ lastReturn.raised =>
             /\ lastReturn.value = "None"
             /\ \A k \in (DOMAIN lastReturn.after) \cup (DOMAIN lastReturn.body) \cup ErrorCounters :
                  get(lastReturn.after, k) =
                     get(lastReturn.body, k) + (IF k = NamedCounter(lastReturn.exc) THEN 1 ELSE 0)

\* C8 (amended): the contract holds for what derives from Exception; an
\* exception outside Exception (an interrupt) leaves the wrapper and no counter
\* changes.
C8_WrapperContractForExceptions ==
    lastReturn.op \in WrappedOps =>
        /\ ~lastReturn.raised =>
             /\ ~lastReturn.propagated
             /\ lastReturn.value = lastReturn.bodyValue
             /\ lastReturn.after = lastReturn.body
        /\ (lastReturn.raised /\ lastReturn.exc \notin Interrupts) =>
             /\ ~lastReturn.propagated
             /\ lastReturn.value = "None"
             /\ \A k \in (DOMAIN lastReturn.after) \cup (DOMAIN lastReturn.body) \cup ErrorCounters :
                  get(lastReturn.after, k) =
                     get(lastReturn.body, k) + (IF k = NamedCounter(lastReturn.exc) THEN 1 ELSE 0)
        /\ (lastReturn.raised /\ lastReturn.exc \in Interrupts) =>
             /\ lastReturn.propagated
             /\ lastReturn.after = lastReturn.body

\* put_records raised (a record without get) after a put_record inside it had
\* failed with a KafkaException: both are absorbed, each counted once.
C8_Witness ==
    /\ lastReturn.op = "put_records"
    /\ lastReturn.raised
    /\ lastReturn.exc = "Exception"
    /\ get(lastReturn.body, "kafka_errors") = 1
    /\ get(metrics, "kafka_errors") = 1
    /\ get(metrics, "general_errors") = 1

C19_ConstructorFailureIsFatal ==
    lastReturn.op = "__init__" =>
        /\ lastReturn.raised
        /\ lastReturn.propagated
        /\ lastReturn.after = lastReturn.body
        /\ metrics = lastReturn.body
        /\ \A k \in ErrorCounters : get(metrics, k) = 0
        /\ pc = "failed"
        /\ connection = "none"
        /\ calls = 0

\* subscribe raised a KafkaException.
C19_Witness ==
    /\ pc = "failed"
    /\ lastReturn.op = "__init__"
    /\ lastReturn.cause = "subscribe"
    /\ lastReturn.exc = "KafkaException"

\* ------------------------------------------- claims on dispatch and poll errors
\* C16: each dispatch, whether process_records returned or raised, leaves the
\* batch empty (so the next poll starts from an empty batch), and hands the
\* record processor only records that were never handed to it before.
C16_BatchClearedNoRedelivery ==
    [][/\ (pc = "dispatching" /\ lastDispatch'.done) => batch' = <<>>
       /\ dispatches' = dispatches + 1 =>
            /\ Len(lastDispatch'.batch) >= 1
            /\ \A i \in 1..Len(lastDispatch'.batch) :
                  lastDispatch'.batch[i] \notin handed]_vars

\* The second dispatch of a run raised: the batch is empty, and both records
\* were handed over once.
C16_Witness ==
    /\ lastDispatch.k = 2
    /\ lastDispatch.raised
    /\ batch = <<>>
    /\ handed = {1, 2}

\* C17: batches_processed is incremented exactly once by every dispatch, also by
\* one in which processing failed.
C17_BatchesProcessedPerDispatch ==
    [][(pc = "dispatching" /\ lastDispatch'.done) =>
         get(metrics', "batches_processed") = get(metrics, "batches_processed") + 1]_vars

\* C18: a loop iteration whose poll returned an error event adds exactly 1 to
\* consumer_errors and changes no other counter, leaves the batch, the position
\* and the records handed to the processor as they were, and the loop goes on.
C18_PollErrorDropped ==
    [][(pc = "running" /\ lastPoll' = "error" /\ pc' # "raised") =>
         /\ pc' = "running"
         /\ get(metrics', "consumer_errors") = get(metrics, "consumer_errors") + 1
         /\ \A k \in ((DOMAIN metrics) \cup (DOMAIN metrics')) \ {"consumer_errors"} :
               get(metrics', k) = get(metrics, k)
         /\ batch' = batch
         /\ offset' = offset
         /\ handed' = handed
         /\ dispatches' = dispatches
         /\ lastDispatch' = lastDispatch]_vars

\* An error event arrived while one record was pending: the record is still
\* pending and is the only message consumed.
C18_Witness ==
    /\ pc = "running"
    /\ lastPoll = "error"
    /\ get(metrics, "consumer_errors") = 1
    /\ get(metrics, "messages_consumed") = 1
    /\ batch = <<1>>

\* --------------------------------------------------- claims on the producers
\* A payload of the message is carried unchanged by the field of the envelope.
Preserved(payload, field) ==
    IF payload = "None" THEN field = "None"
    ELSE field # "None" /\ encode(field) = payload

\* C15: the envelope send_to_dlq hands to the broker client carries the failed
\* message's topic, partition, offset, key and value unchanged, a non-empty
\* reason and a timestamp, and goes to the dead-letter topic, which is not the
\* message's own topic.
C15_EnvelopePreserves ==
    (lastPublish.op = "send_to_dlq" /\ lastPublish.published) =>
        /\ lastPublish.envelope.topic = lastPublish.msg.topic
        /\ lastPublish.envelope.partition = lastPublish.msg.partition
        /\ lastPublish.envelope.offset = lastPublish.msg.offset
        /\ Preserved(lastPublish.msg.key, lastPublish.envelope.key)
        /\ Preserved(lastPublish.msg.value, lastPublish.envelope.value)
        /\ lastPublish.envelope.reason # ""
        /\ "timestamp" \in DOMAIN lastPublish.envelope
        /\ lastPublish.dest = DlqTopic
        /\ lastPublish.dest # lastPublish.msg.topic

\* Increments of the two delivery counters made by the last put_record.
Delivered == get(lastReturn.body, "messages_delivered") - get(lastPublish.before, "messages_delivered")
Failed == get(lastReturn.body, "delivery_errors") - get(lastPublish.before, "delivery_errors")

\* C20 as stated: for every record put_record hands to the broker client, the
\* delivery callback adds 1 to exactly one of messages_delivered (delivered) and
\* delivery_errors (not delivered), and raises nothing into put_record.
C20_DeliveryCounted ==
    (lastPublish.op = "put_record" /\ lastPublish.put.produce = "ok") =>
        /\ Delivered + Failed = 1
        /\ lastPublish.put.report = "delivered" => Delivered = 1
        /\ lastPublish.put.report = "failed" => Failed = 1
        /\ ~lastReturn.raised

\* C20 as amended: that holds when put_record is called without on_delivery, so
\* that the callback is _delivery_report; a caller's on_delivery replaces it,
\* and then neither counter changes.
C20_DefaultCallbackCounts ==
    (lastPublish.op = "put_record" /\ lastPublish.put.produce = "ok") =>
        /\ lastPublish.put.cb = "default" =>
             /\ Delivered + Failed = 1
             /\ lastPublish.put.report = "delivered" => Delivered = 1
             /\ lastPublish.put.report = "failed" => Failed = 1
             /\ ~lastReturn.raised
        /\ lastPublish.put.cb = "custom" => (Delivered = 0 /\ Failed = 0)

\* A second record, published without on_delivery, was not delivered.
C20_Witness ==
    /\ lastPublish.op = "put_record"
    /\ lastPublish.put.produce = "ok"
    /\ lastPublish.put.cb = "default"
    /\ lastPublish.put.report = "failed"
    /\ get(lastPublish.before, "messages_delivered") = 1
    /\ get(metrics, "messages_delivered") = 1
    /\ get(metrics, "delivery_errors") = 1

\* ------------------------------------------------- claims on the registry
\* C12: inc(key, v) makes get(key) the previous get(key) plus v and leaves every
\* other counter as it was; get of a key that was never incremented is 0.
C12_IncAddsValue ==
    /\ reg.last.key # "none" =>
         /\ get(reg.last.after, reg.last.key) =
               get(reg.last.before, reg.last.key) + reg.last.value
         /\ \A k \in RegKeys \ {reg.last.key} :
               get(reg.last.after, k) = get(reg.last.before, k)
    /\ \A k \in RegKeys \ reg.touched : get(metrics, k) = 0

\* The counter "a" stood at 1 and inc("a", 1) made it 2; "b" was never touched.
C12_Witness ==
    /\ reg.last.key = "a"
    /\ reg.last.value = 1
    /\ get(reg.last.before, "a") = 1
    /\ get(metrics, "a") = 2
    /\ reg.touched = {"a"}

\* C13: no operation decreases (or resets) a counter; starting from 0, every
\* counter is therefore non-negative.
C13_CountersNeverDecrease ==
    [][\A k \in (DOMAIN metrics) \cup (DOMAIN metrics') : get(metrics', k) >= get(metrics, k)]_vars

\* C14: no increment is lost: when no inc call is in progress, every counter of
\* the registry equals the sum of the increments applied to it by the threads
\* and workers.
C14_NoLostUpdate ==
    (\A t \in Threads : reg.th[t].pc = "idle") =>
        \A k \in RegKeys : get(metrics, k) = reg.asked[k]

\* ------------------------------------------- claims on the steps of the loop
\* C22: a dispatch is synchronous. While process_records runs the loop cannot
\* poll, and no step taken while it runs polls a record or issues a commit
\* unless it is the end of that dispatch; the commit of an iteration that
\* dispatched is issued only once the dispatch has returned, with the
\* dispatched records handed over and the batch cleared; so a dispatch that
\* never ends is followed by no poll and no commit.
C22_DispatchSynchronous ==
    /\ [](pc = "dispatching" =>
            /\ ~ENABLED PollNone
            /\ ~ENABLED PollError
            /\ ~ENABLED PollRaises
            /\ ~ENABLED PollMsg)
    /\ [][pc' = "dispatching" => lastCommit' = lastCommit]_vars
    /\ [][pc = "dispatching" =>
            /\ offset' = offset
            /\ lastPoll' = lastPoll
            /\ get(metrics', "messages_consumed") = get(metrics, "messages_consumed")
            /\ lastCommit' # lastCommit =>
                 /\ lastDispatch'.done
                 /\ ~lastDispatch'.raised
                 /\ lastCommit'.batch = <<>>
                 /\ \A i \in 1..Len(lastDispatch.batch) :
                       lastDispatch.batch[i] \in lastCommit'.handed]_vars

\* A dispatch of two records is running while the checkpoint is due.
C22_Witness ==
    /\ pc = "dispatching"
    /\ Len(batch) = 2
    /\ now - last_checkpoint_time > config.checkpoint_freq_in_sec

C25_NonePollChangesNothing ==
    [][(pc = "running" /\ lastPoll' = "none" /\ pc' # "raised") =>
         /\ pc' = "running"
         /\ connection' = connection
         /\ batch' = batch
         /\ metrics' = metrics
         /\ last_checkpoint_time' = last_checkpoint_time
         /\ offset' = offset
         /\ dispatches' = dispatches
         /\ handed' = handed
         /\ lastDispatch' = lastDispatch
         /\ lastCommit' = lastCommit]_vars

\* The last poll timed out while a record was pending and the checkpoint was
\* due: the loop is running and has not committed.
C25_Witness ==
    /\ pc = "running"
    /\ lastPoll = "none"
    /\ Len(batch) = 1
    /\ now - last_checkpoint_time > config.checkpoint_freq_in_sec

\* C26: every record the consumer got was counted once in messages_consumed;
\* and at every poll of a run of poll_and_process that began with no record
\* consumed (both counters 0), the batch holds fewer than batch_size records
\* and messages_consumed = batch_size * batches_processed + len(batch).
C26_ConsumerAccounting ==
    role = "consumer" =>
        /\ get(metrics, "messages_consumed") = offset
        /\ (pc = "running" /\ runStart = 0) =>
             /\ 0 <= Len(batch)
             /\ Len(batch) < config.batch_size
             /\ get(metrics, "messages_consumed") =
                  config.batch_size * get(metrics, "batches_processed") + Len(batch)

\* Batch size 2, three records consumed: one batch processed, one record pending.
C26_Witness ==
    /\ pc = "running"
    /\ runStart = 0
    /\ config.batch_size = 2
    /\ get(metrics, "messages_consumed") = 3
    /\ get(metrics, "batches_processed") = 1
    /\ Len(batch) = 1

\* C29: poll_and_process ends only by an exception. It returns (None) only
\* after poll, process_records or commit raised an exception that the decorator
\* absorbed; that return adds exactly 1 to kafka_errors + general_errors, leaves
\* the connection as it was, comes with no successful commit and no new
\* dispatch; and the next call starts with an empty batch and dispatches only
\* records polled by itself.
C29_ReturnsOnlyOnAbsorbedFailure ==
    [][/\ (pc \in {"running", "dispatching"} /\ pc' \notin {"running", "dispatching"}) =>
            /\ lastReturn'.op = "poll_and_process"
            /\ lastReturn'.raised
       /\ (pc \in {"running", "dispatching"} /\ pc' = "idle") =>
            /\ lastReturn'.cause \in {"poll", "dispatch", "commit"}
            /\ lastReturn'.exc \in ExcKinds
            /\ ~lastReturn'.propagated
            /\ lastReturn'.value = "None"
            /\ get(metrics', "kafka_errors") + get(metrics', "general_errors") =
                 get(metrics, "kafka_errors") + get(metrics, "general_errors") + 1
            /\ get(metrics', "kafka_errors") >= get(metrics, "kafka_errors")
            /\ get(metrics', "general_errors") >= get(metrics, "general_errors")
            /\ connection' = connection
            /\ lastCommit' # lastCommit => lastCommit'.raised
            /\ last_checkpoint_time' = last_checkpoint_time
            /\ dispatches' = dispatches
            /\ handed' = handed
       /\ (pc = "idle" /\ pc' = "running") => batch' = <<>>
       /\ dispatches' = dispatches + 1 =>
            \A i \in 1..Len(lastDispatch'.batch) : lastDispatch'.batch[i] > runStart']_vars

\* The commit raised while a record was pending: the call has returned, the
\* connection is open.
C29_Witness ==
    /\ pc = "idle"
    /\ connection = "open"
    /\ lastReturn.op = "poll_and_process"
    /\ lastReturn.cause = "commit"
    /\ Len(batch) >= 1

\* ------------------------------------ claims on the steps of process_records
\* What pool.map returns for the records `mapped` when no handler raises: the
\* i-th entry is the handler's response to the i-th record.
ExpectedResults(mapped, h) ==
    [i \in 1..Len(mapped) |-> Response(mapped[i], h[mapped[i]] = "true")]

\* C24: with a batch manager the calls are pre hook, map, post hook, in this
\* order; the map is applied to the records the pre hook returned; the post
\* hook is called with those records and with the map's results; the count
\* returned is the number of true entries of the list the post hook returned.
\* Without a batch manager the only call is the map, applied to the batch as
\* given, and its results are counted.
C24_HookOrder ==
    procOut.step # "none" =>
        LET e == procIn.env
            o == procOut
        IN  IF e.bm
            THEN /\ o.trace = CASE o.step = "pre" -> <<"pre">>
                                [] o.step = "map" -> <<"pre", "map">>
                                [] OTHER -> <<"pre", "map", "post">>
                 /\ o.step # "pre" => o.mapped = e.pre.value
                 /\ o.step \in {"post", "return"} =>
                      /\ o.results = ExpectedResults(e.pre.value, e.h)
                      /\ o.postArgs = [records |-> e.pre.value, status |-> o.results]
                 /\ o.step = "return" =>
                      /\ Len(o.response) = Len(e.post.value)
                      /\ \A i \in 1..Len(o.response) : o.response[i].status = e.post.value[i]
                      /\ o.value = Cardinality({i \in 1..Len(e.post.value) : e.post.value[i]})
            ELSE /\ o.trace = <<"map">>
                 /\ o.mapped = procIn.records
                 /\ o.postArgs = NoPostArgs
                 /\ o.step \in {"map", "return"}
                 /\ o.step = "return" =>
                      /\ o.results = ExpectedResults(procIn.records, e.h)
                      /\ o.response = o.results
                      /\ o.value = Cardinality(Successes(o.results))

\* The pre hook turned the batch <<1, 2>> into <<2>>, the handler succeeded on
\* record 2 and the post hook returned one false entry: the count is 0.
C24_Witness ==
    /\ procIn.env.bm
    /\ procIn.records = <<1, 2>>
    /\ procIn.env.pre.value = <<2>>
    /\ procOut.step = "return"
    /\ procOut.results = <<Response(2, TRUE)>>
    /\ procOut.response = <<Response(2, FALSE)>>
    /\ procOut.value = 0

\* Some result of the map is not the result of the record at its position.
MapMismatch ==
    \E i \in 1..Len(procOut.results) :
        i > Len(procOut.mapped) \/ procOut.results[i].message_id # procOut.mapped[i]

\* C28 as stated: the order of the map's results need not be the order of the
\* records: process_records has an execution in which the i-th result does not
\* belong to the i-th record.
C28_OrderNotGuaranteed ==
    (role = "processor" /\ procOut.step = "none") =>
        ENABLED (ProcessRecordsCall /\ MapMismatch')

\* C28: the results of the map are in the order of the records it was given:
\* there is one result per record and the i-th result belongs to the i-th
\* record.
C28_MapKeepsOrder ==
    procOut.step \in {"post", "return"} =>
        /\ Len(procOut.results) = Len(procOut.mapped)
        /\ \A i \in 1..Len(procOut.mapped) :
              procOut.results[i].message_id = procOut.mapped[i]

\* The map was given the records 3, 1, 2 in this order.
C28_Witness ==
    /\ procOut.step = "return"
    /\ procOut.mapped = <<3, 1, 2>>
    /\ Len(procOut.results) = 3

\* ------------------------------------------------- claims on the worker pool
\* C27: the constructor creates one pool of exactly process_count worker
\* processes, and no batch creates another or changes its size; no worker runs
\* setup more than once, however many batches are mapped; a worker is in its
\* task loop only after its one run of setup, so it has run setup before it
\* processes any record.
C27_SetupOncePerWorker ==
    (role = "pool" /\ pool.created >= 1) =>
        /\ pool.created = 1
        /\ Len(pool.w) = pool.size
        /\ pool.size >= 1
        /\ \A i \in 1..Len(pool.w) :
              /\ pool.w[i].setups <= 1
              /\ pool.w[i].pc = "ready" <=> pool.w[i].setups = 1
              /\ pool.w[i].tasks >= 1 => pool.w[i].setups = 1

\* Two workers, two batches mapped: each worker has processed records and has
\* run setup once.
C27_Witness ==
    /\ pool.size = 2
    /\ pool.batches = 2
    /\ ~pool.mapping
    /\ \A i \in 1..2 : pool.w[i].setups = 1 /\ pool.w[i].tasks >= 1

\* ------------------------------------------------- claims on the producer
\* C21 as stated: whenever put_record returns, flush was invoked after the
\* produce of that call and messages_produced has grown by exactly 1.
C21_PutRecordFlushes ==
    (lastPublish.op = "put_record" /\ ~lastReturn.propagated) =>
        /\ lastPublish.calls = <<"produce", "flush">>
        /\ get(metrics, "messages_produced") = get(lastPublish.before, "messages_produced") + 1

\* C21: when the produce of a put_record returns, messages_produced grows by
\* exactly 1 and flush is invoked after the produce, before put_record returns
\* (a put_record whose body raised nothing is such a call); when produce raises
\* an exception the decorator absorbs, put_record returns None with no flush
\* invoked and messages_produced as it was, and one error counter grown by 1.
C21_FlushAfterProduce ==
    lastPublish.op = "put_record" =>
        /\ ~lastReturn.raised => lastPublish.put.produce = "ok"
        /\ lastPublish.put.produce = "ok" =>
             /\ lastPublish.calls = <<"produce", "flush">>
             /\ get(metrics, "messages_produced") =
                  get(lastPublish.before, "messages_produced") + 1
             /\ ~lastReturn.propagated
        /\ lastPublish.put.produce # "ok" =>
             /\ lastPublish.calls = <<"produce">>
             /\ get(metrics, "messages_produced") =
                  get(lastPublish.before, "messages_produced")
        /\ lastPublish.put.produce \in ExcKinds =>
             /\ ~lastReturn.propagated
             /\ lastReturn.value = "None"
             /\ get(metrics, ErrorCounter(lastPublish.put.produce)) =
                  get(lastPublish.before, ErrorCounter(lastPublish.put.produce)) + 1

\* The second put_record of a producer returned after produce and flush.
C21_Witness ==
    /\ lastPublish.op = "put_record"
    /\ lastPublish.put.produce = "ok"
    /\ ~lastReturn.raised
    /\ lastPublish.calls = <<"produce", "flush">>
    /\ get(metrics, "messages_produced") = 2

\* The records of a put_records for which put_record was called: those before
\* the first record whose key lookup raises (bad) or whose put_record was
\* interrupted, and the interrupted one.
Attempted(envs, bad) ==
    {i \in 1..Len(envs) :
        /\ bad = 0 \/ i < bad
        /\ \A j \in 1..(i - 1) : envs[j].produce \notin Interrupts}

\* The records whose publishing failed with an exception.
FailedPuts(envs) ==
    {i \in 1..Len(envs) : envs[i].produce \in ExcKinds \/ envs[i].cbexc # "none"}

\* C30: put_records calls put_record for every record, in order, also after a
\* record whose put_record failed: when every key lookup works and nothing
\* interrupts the call, all K records are attempted; each failure inside a
\* put_record adds exactly 1 to kafka_errors + general_errors and the outer
\* wrapper adds nothing; and messages_produced grows by the number of attempted
\* records whose produce returned, which is at most K.
C30_PutRecordsAttemptsAll ==
    lastPublish.op = "put_records" =>
        LET envs == lastPublish.puts
            att == Attempted(envs, lastPublish.bad)
            produced == {i \in att : envs[i].produce = "ok"}
            errs(m) == get(m, "kafka_errors") + get(m, "general_errors")
        IN  /\ get(metrics, "messages_produced") =
                  get(lastPublish.before, "messages_produced") + Cardinality(produced)
            /\ Cardinality(produced) <= Len(envs)
            /\ (lastPublish.bad = 0 /\ \A i \in 1..Len(envs) : envs[i].produce \notin Interrupts) =>
                  /\ att = 1..Len(envs)
                  /\ ~lastReturn.raised
                  /\ lastReturn.after = lastReturn.body
                  /\ errs(metrics) = errs(lastPublish.before) + Cardinality(FailedPuts(envs))

\* Three records, the produce of the first raised: the other two were produced.
C30_Witness ==
    /\ lastPublish.op = "put_records"
    /\ Len(lastPublish.puts) = 3
    /\ lastPublish.bad = 0
    /\ lastPublish.puts[1].produce = "KafkaException"
    /\ lastPublish.puts[2].produce = "ok"
    /\ lastPublish.puts[3].produce = "ok"
    /\ get(metrics, "messages_produced") = get(lastPublish.before, "messages_produced") + 2
    /\ get(metrics, "kafka_errors") = get(lastPublish.before, "kafka_errors") + 1

\* The deliveries reported in the registry m do not exceed the records counted
\* as produced.
Accounted(m) ==
    get(m, "messages_delivered") + get(m, "delivery_errors") <= get(m, "messages_produced")

ProducerCounters == {"messages_produced", "messages_delivered", "delivery_errors"}

\* C31: in every state of a producer, between calls and after each statement of
\* a put_record, messages_delivered + delivery_errors <= messages_produced;
\* a put_record whose produce returned has counted the record in
\* messages_produced, and in nothing else, before the flush runs the callback;
\* a put_record whose produce raised leaves the three counters as they were.
C31_ProducerAccounting ==
    role = "producer" =>
        /\ Accounted(metrics)
        /\ \A i \in 1..Len(lastPublish.states) : Accounted(lastPublish.states[i])
        /\ lastPublish.op = "put_record" =>
             LET st == lastPublish.states
             IN  /\ st[1] = lastPublish.before
                 /\ st[Len(st)] = lastReturn.body
                 /\ lastPublish.put.produce = "ok" =>
                      /\ Len(st) = 3
                      /\ get(st[2], "messages_produced") =
                           get(st[1], "messages_produced") + 1
                      /\ \A k \in ProducerCounters \ {"messages_produced"} :
                            get(st[2], k) = get(st[1], k)
                      /\ get(st[3], "messages_produced") = get(st[2], "messages_produced")
                 /\ lastPublish.put.produce # "ok" =>
                      /\ Len(st) = 1
                      /\ \A k \in ProducerCounters :
                            get(metrics, k) = get(lastPublish.before, k)

\* A producer with the default callback: two records produced, the first
\* delivered, the delivery of the second just reported as failed.
C31_Witness ==
    /\ role = "producer"
    /\ lastPublish.op = "put_record"
    /\ lastPublish.put.cb = "default"
    /\ lastPublish.put.report = "failed"
    /\ get(metrics, "messages_produced") = 2
    /\ get(metrics, "messages_delivered") = 1
    /\ get(metrics, "delivery_errors") = 1

====
